---- MODULE Spec2Model ----
(***************************************************************************)
(* django_migration_extensions: the monkey-patches of the host's           *)
(* MigrationGraph.leaf_nodes / MigrationLoader.detect_conflicts, the       *)
(* model-level conflict strategy and the manifest writer.                  *)
(*                                                                         *)
(* Strings are sequences of character codes (ASCII), compared as Python    *)
(* compares str: lexicographically.  A raised exception is the name of its *)
(* class in the "error" field of a result; "" means the call returned.     *)
(***************************************************************************)
EXTENDS Integers, Sequences, FiniteSets, TLC

VARIABLES
    pc,                           \* "start" | "imported" | "ready": the process's start-up
    setting,                      \* settings.MIGRATION_CONFLICT_DETECTOR_STRATEGY
    MigrationGraph_leaf_nodes,    \* the function bound to MigrationGraph.leaf_nodes
    MigrationLoader_detect_conflicts, \* the function bound to MigrationLoader.detect_conflicts
    init_original_leaf_nodes,     \* __init__._original_leaf_nodes
    apps_original_leaf_nodes,     \* apps._original_leaf_nodes
    graph,                        \* loader.graph.nodes: (app_label, name) -> Migration
    manifest,                     \* the manifest file: the (key, value) entries in written order
    ret                           \* the outcome of the last call

vars == <<pc, setting, MigrationGraph_leaf_nodes, MigrationLoader_detect_conflicts,
          init_original_leaf_nodes, apps_original_leaf_nodes, graph, manifest, ret>>

--------------------------------------------------------------------------
(* Bounds and the finite universe of inputs *)

\* the size of the graph: its migrations plus their operations
MaxSize == 4

\* app labels "a", "b"
AppLabels == { <<97>>, <<98>> }
\* model names (already lower-case: name_lower / model_name_lower) "m", "n"
ModelNames == { <<109>>, <<110>> }
\* migration names "9", "10": string order and numeric order disagree on them
MigrationNames == { <<57>>, <<49, 48>> }
\* no value: Python's None for a str argument (falsy, like "")
None == << >>

Keys == AppLabels \X MigrationNames

\* The operation objects of a migration: a ModelOperation carries name_lower
\* (the model), a FieldOperation model_name_lower (the model) and name_lower
\* (the field, "f"), any other operation neither.
Operations ==
    [class : {"CreateModel"}, name_lower : ModelNames]
    \cup [class : {"AddField"}, model_name_lower : ModelNames, name_lower : { <<102>> }]
    \cup [class : {"RunPython"}]

\* the interpreters the package can run under
PythonMajor == {2, 3}

\* values of settings.MIGRATION_CONFLICT_DETECTOR_STRATEGY
Unset == "<unset>"
DEFAULT_STRATEGY == "django_migration_extensions.strategies.ModelDetectConflictStrategy"
Settings == {Unset, "", DEFAULT_STRATEGY}

\* the labels of apps.get_app_configs(), in INSTALLED_APPS order: "b" then "a"
app_configs == << <<98>>, <<97>> >>

--------------------------------------------------------------------------
(* Python built-ins the code relies on *)

\* str < str
StrLess(s, t) ==
    \E i \in 1..Len(t) :
        /\ i <= Len(s) + 1
        /\ \A j \in 1..(i - 1) : s[j] = t[j]
        /\ (i = Len(s) + 1 \/ s[i] < t[i])

\* tuple < tuple for 2-tuples of str
TupleLess(a, b) == StrLess(a[1], b[1]) \/ (a[1] = b[1] /\ StrLess(a[2], b[2]))

\* list.index
Index(list, x) == CHOOSE i \in 1..Len(list) : list[i] = x /\ \A j \in 1..(i - 1) : list[j] # x

\* an enumeration of a set, in some order
SetToSeq(S) == CHOOSE s \in [1..Cardinality(S) -> S] : \A x \in S : \E i \in DOMAIN s : s[i] = x

\* every order in which a dict or set with these keys can be iterated
Orders(S) == { s \in [1..Cardinality(S) -> S] : \A x \in S : \E i \in DOMAIN s : s[i] = x }

Range(s) == { s[i] : i \in DOMAIN s }

\* sorted(): stable; the elements are [key |-> <<k1, k2>>, item |-> x] with
\* k1, k2 strings (an int n is carried as the one-code string <<n>>)
RECURSIVE Sorted(_)
Sorted(s) ==
    IF s = << >> THEN << >>
    ELSE LET x == s[Len(s)]
             front == Sorted(SubSeq(s, 1, Len(s) - 1))
             p == Cardinality({ i \in 1..Len(front) : ~TupleLess(x.key, front[i].key) })
         IN  SubSeq(front, 1, p) \o <<x>> \o SubSeq(front, p + 1, Len(front))

Items(s) == [i \in DOMAIN s |-> s[i].item]

--------------------------------------------------------------------------
(* The host's migration graph *)

\* loader.get_migration(app_label, name): the Migration object of a node
Migration(g, k) == [app_label |-> k[1], name |-> k[2], operations |-> g[k].operations]

\* the functions that can be bound to MigrationGraph.leaf_nodes
HostLeafNodes == "MigrationGraph.leaf_nodes"
InitPatchedLeafNodes == "__init__._patched_leaf_nodes"
AppsPatchedLeafNodes == "apps._patched_leaf_nodes"
\* the functions that can be bound to MigrationLoader.detect_conflicts
HostDetectConflicts == "MigrationLoader.detect_conflicts"
InitPatchedDetectConflicts == "__init__._patched_detect_conflicts"
AppsPatchedDetectConflicts == "apps._patched_detect_conflicts"
\* a module global that holds None
NoFunction == "None"

\* The host's MigrationGraph.leaf_nodes, kept as _original_leaf_nodes: the
\* nodes with no child in their own app, of the given app if any, sorted.
OriginalLeafNodes(g, app) ==
    LET leaves == { n \in DOMAIN g :
                      /\ \A c \in DOMAIN g : n \in g[c].dependencies => c[1] # n[1]
                      /\ (app = None \/ app = n[1]) }
        listed == SetToSeq(leaves)
    IN  Items(Sorted([i \in DOMAIN listed |-> [key |-> listed[i], item |-> listed[i]]]))

\* itertools.groupby(leaf_nodes, key=lambda t: t[0]): the runs of consecutive
\* nodes with the same app label
RECURSIVE GroupBy(_)
GroupBy(list) ==
    IF list = << >> THEN << >>
    ELSE LET n == CHOOSE m \in 1..Len(list) :
                      /\ \A i \in 1..m : list[i][1] = list[1][1]
                      /\ (m = Len(list) \/ list[m + 1][1] # list[1][1])
         IN  << SubSeq(list, 1, n) >> \o GroupBy(SubSeq(list, n + 1, Len(list)))

\* sorted(migration_names)
SortedNames(names) == Items(Sorted([i \in DOMAIN names |-> [key |-> <<names[i], None>>, item |-> names[i]]]))

\* LastLeafNode with a fault: the first name of the sorted list, not the last
FirstLeafNode(grouper) ==
    LET migration_names == [i \in DOMAIN grouper |-> grouper[i][2]]
    IN  SortedNames(migration_names)[1]

\* the body of the loop of _patched_leaf_nodes: sorted(migration_names)[-1]
LastLeafNode(grouper) ==
    LET migration_names == [i \in DOMAIN grouper |-> grouper[i][2]]
    IN  SortedNames(migration_names)[Len(migration_names)]

\* _patched_leaf_nodes, given what _original_leaf_nodes returned
PatchedLeafNodes(leaf_nodes) ==
    LET groups == GroupBy(leaf_nodes)
    IN  [i \in DOMAIN groups |-> << groups[i][1][1], LastLeafNode(groups[i]) >>]

\* a call of the function fn as graph.leaf_nodes(app); init_orig and apps_orig
\* are the two modules' _original_leaf_nodes
RECURSIVE CallLeafNodes(_, _, _, _, _)
CallLeafNodes(fn, g, app, init_orig, apps_orig) ==
    IF fn = InitPatchedLeafNodes
    THEN PatchedLeafNodes(CallLeafNodes(init_orig, g, app, init_orig, apps_orig))
    ELSE IF fn = AppsPatchedLeafNodes
    THEN PatchedLeafNodes(CallLeafNodes(apps_orig, g, app, init_orig, apps_orig))
    ELSE OriginalLeafNodes(g, app)

--------------------------------------------------------------------------
(* Strategy selection *)

Returned(v) == [error |-> "", value |-> v]
Raised(e) == [error |-> e, value |-> None]

\* django.utils.module_loading.import_string, on the paths of Settings
ImportString(dotted_path) ==
    IF dotted_path = DEFAULT_STRATEGY THEN Returned("ModelDetectConflictStrategy")
    ELSE Raised("ImportError")

\* __init__.get_strategy: getattr with DEFAULT_STRATEGY as the default
InitGetStrategy(s) == ImportString(IF s = Unset THEN DEFAULT_STRATEGY ELSE s)

\* utils.get_strategy: getattr without a default
UtilsGetStrategy(s) == IF s = Unset THEN Raised("AttributeError") ELSE ImportString(s)

\* the names strategies.py defines
StrategiesModule == {"BaseConflictStrategy", "ModelDetectConflictStrategy"}

--------------------------------------------------------------------------
(* utils.is_model_operation / is_field_operation *)

\* get_version() >= (1, 10): get_version() is a str and (1, 10) a tuple.
\* Python 2 orders values of unlike types by type name ("str" < "tuple"), so
\* the comparison is False; Python 3 raises TypeError.
VersionAtLeast_1_10(py) == IF py = 2 THEN Returned(FALSE) ELSE Raised("TypeError")

\* isinstance(operation, ModelOperation) / isinstance(operation, FieldOperation)
ModelOperationClasses == {"CreateModel"}
FieldOperationClasses == {"AddField"}
\* the classes named by the Django 1.9 branches
LegacyModelOperations ==
    {"CreateModel", "DeleteModel", "RenameModel", "AlterModelTable", "AlterUniqueTogether",
     "AlterIndexTogether", "AlterOrderWithRespectTo", "AlterModelOptions", "AlterModelManagers"}
LegacyFieldOperations == {"AddField", "RemoveField", "AlterField", "RenameField"}

is_model_operation(operation, py) ==
    LET recent == VersionAtLeast_1_10(py)
    IN  IF recent.error # "" THEN recent
        ELSE IF recent.value THEN Returned(operation.class \in ModelOperationClasses)
        ELSE Returned(operation.class \in LegacyModelOperations)

is_field_operation(operation, py) ==
    LET recent == VersionAtLeast_1_10(py)
    IN  IF recent.error # "" THEN recent
        ELSE IF recent.value THEN Returned(operation.class \in FieldOperationClasses)
        ELSE Returned(operation.class \in LegacyFieldOperations)

--------------------------------------------------------------------------
(* strategies.ModelDetectConflictStrategy *)

\* _find_models_changed, run to its end: the (app_label, model) pairs it
\* yields, in order, or the exception that ends it
RECURSIVE FindModelsChanged(_, _)
FindModelsChanged(migration, py) ==
    IF migration.operations = << >> THEN Returned(<< >>)
    ELSE LET operation == Head(migration.operations)
             is_model == is_model_operation(operation, py)
             is_field == is_field_operation(operation, py)
             rest == FindModelsChanged([migration EXCEPT !.operations = Tail(@)], py)
         IN  IF is_model.error # "" THEN is_model
             ELSE IF is_model.value
             THEN IF rest.error # "" THEN rest
                  ELSE Returned(<< <<migration.app_label, operation.name_lower>> >> \o rest.value)
             ELSE IF is_field.error # "" THEN is_field
             ELSE IF is_field.value
             THEN IF rest.error # "" THEN rest
                  ELSE Returned(<< <<migration.app_label, operation.model_name_lower>> >> \o rest.value)
             ELSE rest

\* ModelsOfMigration with a fault: the yields as a list, without set()
ModelsOfMigrationList(yielded) == yielded

\* set(self._find_models_changed(migration)), as the loop below iterates it
ModelsOfMigration(yielded) == SetToSeq(Range(yielded))

\* the loop of detect_conflicts over the leaf migrations: seen_models and
\* conflicting_models after it, or the exception raised in it
RECURSIVE DetectLoop(_, _, _, _)
DetectLoop(migrations, seen_models, conflicting_models, py) ==
    IF migrations = << >>
    THEN Returned([seen_models |-> seen_models, conflicting_models |-> conflicting_models])
    ELSE LET migration == Head(migrations)
             found == FindModelsChanged(migration, py)
         IN  IF found.error # "" THEN found
             ELSE LET models == ModelsOfMigration(found.value)
                      \* the inner loop, one model at a time
                      inner[n \in 0..Len(models)] ==
                          IF n = 0 THEN [seen |-> seen_models, conflicting |-> conflicting_models]
                          ELSE LET model == models[n]
                                   before == inner[n - 1]
                               IN  [seen |-> [m \in DOMAIN before.seen \cup {model} |->
                                                IF m = model
                                                THEN (IF m \in DOMAIN before.seen
                                                      THEN before.seen[m] ELSE {})
                                                     \cup {migration.name}
                                                ELSE before.seen[m]],
                                    conflicting |-> IF model \in DOMAIN before.seen
                                                    THEN before.conflicting \cup {model}
                                                    ELSE before.conflicting]
                      after == inner[Len(models)]
                  IN  DetectLoop(Tail(migrations), after.seen, after.conflicting, py)

\* detect_conflicts(graph), given what graph.leaf_nodes() returned: the
\* mappings it can return (the dict comprehension runs over a set, and a later
\* model of an app replaces the value of an earlier one), or the exception
DetectConflicts(leaf_nodes, g, py) ==
    LET migrations == [i \in DOMAIN leaf_nodes |-> Migration(g, leaf_nodes[i])]
        loop == DetectLoop(migrations, << >>, {}, py)
    IN  IF loop.error # "" THEN loop
        ELSE LET seen_models == loop.value.seen_models
                 conflicting_models == loop.value.conflicting_models
                 labels == { model[1] : model \in conflicting_models }
             IN  Returned({ d \in [labels -> SUBSET MigrationNames] :
                              \A app_label \in labels :
                                  \E model \in conflicting_models :
                                      model[1] = app_label /\ d[app_label] = seen_models[model] })

\* _manifest_header
ManifestHeader ==
    << "---------------------------------------------------------------------",
       " You should NEVER change this file by hand or it will break things   ",
       "                                                                     ",
       " This is a manifest file that is automatically created after running ",
       " the makemigrations command. The manifest describes the models that  ",
       " have been migrated and the latest migration that touched that model ",
       "                                                                     ",
       " If you get a conflict, it means that you and another person changed ",
       " the same model, and one of you will have to redo your migration in  ",
       " order to resolve the conflict.                                      ",
       "---------------------------------------------------------------------",
       "" >>

\* "_H{:02d}".format(i)
HeaderKey(i) == << 95, 72, 48 + ((i \div 10) % 10), 48 + (i % 10) >>

\* "{}.{}".format(app_label, model_name)
ModelKey(app_label, model_name) == app_label \o << 46 >> \o model_name

\* SortNodeKey with a fault: the app's position alone, the name left out
SortNodeKeyAppOnly(node, app_labels) == << <<Index(app_labels, node[1])>>, None >>

\* _sort_node_key: (app_labels.index(app_label), migration_name)
SortNodeKey(node, app_labels) == << <<Index(app_labels, node[1])>>, node[2] >>

\* _get_sorted_nodes: the nodes dict, iterated in the order nodes_order, sorted
GetSortedNodes(nodes_order, app_labels) ==
    Items(Sorted([i \in DOMAIN nodes_order |->
                    [key |-> SortNodeKey(nodes_order[i], app_labels), item |-> nodes_order[i]]]))

\* d[k] = v on a dict that keeps insertion order: a sequence of <<k, v>>
DictSet(d, k, v) ==
    IF \E i \in DOMAIN d : d[i][1] = k
    THEN [i \in DOMAIN d |-> IF d[i][1] = k THEN <<k, v>> ELSE d[i]]
    ELSE Append(d, <<k, v>>)

\* OrderedDict(pairs)
RECURSIVE OrderedDict(_)
OrderedDict(pairs) ==
    IF pairs = << >> THEN << >>
    ELSE DictSet(OrderedDict(SubSeq(pairs, 1, Len(pairs) - 1)),
                 pairs[Len(pairs)][1], pairs[Len(pairs)][2])

\* the first loop of write_manifest_file: model_migration_map after the
\* sorted nodes, or the exception raised in it
RECURSIVE ModelMigrationMap(_, _, _)
ModelMigrationMap(nodes, g, py) ==
    IF nodes = << >> THEN Returned(<< >>)
    ELSE LET before == ModelMigrationMap(SubSeq(nodes, 1, Len(nodes) - 1), g, py)
             node == nodes[Len(nodes)]
             models_changed == FindModelsChanged(Migration(g, node), py)
             set[n \in 0..Len(models_changed.value)] ==
                 IF n = 0 THEN before.value
                 ELSE DictSet(set[n - 1], models_changed.value[n], node[2])
         IN  IF before.error # "" THEN before
             ELSE IF models_changed.error # "" THEN models_changed
             ELSE Returned(set[Len(models_changed.value)])

\* write_manifest_file(changes) from the line after nodes = ... on: the
\* entries json.dump writes, or the exception raised before the file is opened
ManifestOfSortedNodes(g, nodes, app_labels, changes, py) ==
    LET model_migration_map == ModelMigrationMap(nodes, g, py)
        header == [i \in 1..Len(ManifestHeader) |-> << HeaderKey(i - 1), ManifestHeader[i] >>]
        items == model_migration_map.value
        \* _model_migration_map_item_key
        model_migration_map_items ==
            Items(Sorted([i \in DOMAIN items |->
                            [key |-> << <<Index(app_labels, items[i][1][1])>>, items[i][1][2] >>,
                             item |-> items[i]]]))
        model_changes ==
            [i \in DOMAIN model_migration_map_items |->
                << ModelKey(model_migration_map_items[i][1][1], model_migration_map_items[i][1][2]),
                   model_migration_map_items[i][2] >>]
    IN  IF model_migration_map.error # "" THEN model_migration_map
        ELSE Returned(OrderedDict(header \o model_changes))

\* write_manifest_file(changes), with the nodes dict iterated in the order
\* nodes_order
WriteManifestFile(g, nodes_order, changes, py) ==
    LET app_labels == app_configs
    IN  ManifestOfSortedNodes(g, GetSortedNodes(nodes_order, app_labels), app_labels, changes, py)

--------------------------------------------------------------------------
(* The state machine *)

\* the result register: which call ended last, how, on what, with what
Outcome(op, error, arg, value) == [op |-> op, error |-> error, arg |-> arg, value |-> value]
NoCall == Outcome("", "", None, None)

Init ==
    /\ pc = "start"
    /\ setting \in Settings
    /\ MigrationGraph_leaf_nodes = HostLeafNodes
    /\ MigrationLoader_detect_conflicts = HostDetectConflicts
    /\ init_original_leaf_nodes = NoFunction
    /\ apps_original_leaf_nodes = NoFunction
    /\ graph = << >>
    /\ manifest = << >>
    /\ ret = NoCall

\* import django_migration_extensions: __init__.py keeps the host's leaf_nodes
\* and calls _patch_everything(); apps.py sets its _original_leaf_nodes to None
ImportPackage ==
    /\ pc = "start"
    /\ pc' = "imported"
    /\ init_original_leaf_nodes' = MigrationGraph_leaf_nodes
    /\ apps_original_leaf_nodes' = NoFunction
    /\ MigrationGraph_leaf_nodes' = InitPatchedLeafNodes
    /\ MigrationLoader_detect_conflicts' = InitPatchedDetectConflicts
    /\ UNCHANGED <<setting, graph, manifest, ret>>

\* AppConfig.ready(), which the host calls once: apps._patch_everything() if
\* the setting is truthy
Ready ==
    /\ pc = "imported"
    /\ pc' = "ready"
    /\ IF setting \notin {Unset, ""}
       THEN /\ apps_original_leaf_nodes' = MigrationGraph_leaf_nodes
            /\ MigrationGraph_leaf_nodes' = AppsPatchedLeafNodes
            /\ MigrationLoader_detect_conflicts' = AppsPatchedDetectConflicts
       ELSE UNCHANGED <<apps_original_leaf_nodes, MigrationGraph_leaf_nodes,
                        MigrationLoader_detect_conflicts>>
    /\ UNCHANGED <<setting, init_original_leaf_nodes, graph, manifest, ret>>

OpsInGraph(g) ==
    LET listed == SetToSeq(DOMAIN g)
        total[n \in 0..Len(listed)] ==
            IF n = 0 THEN 0 ELSE total[n - 1] + Len(g[listed[n]].operations)
    IN  total[Len(listed)]

\* the migrations that can join the graph g: a new node, its operations and
\* its dependencies among the nodes already there
NewMigrations(g) ==
    LET room == MaxSize - Cardinality(DOMAIN g) - OpsInGraph(g)
    IN  IF room < 1 THEN {}
        ELSE [key : Keys \ DOMAIN g,
              operations : UNION { [1..n -> Operations] : n \in 0..(room - 1) },
              dependencies : SUBSET (DOMAIN g)]

WithMigration(g, m) ==
    [k \in DOMAIN g \cup {m.key} |->
        IF k = m.key THEN [operations |-> m.operations, dependencies |-> m.dependencies]
        ELSE g[k]]

\* a migration file arrives from outside the package's command (written by
\* hand, or merged from another branch); the next loader has it in its graph
LoadMigration ==
    /\ pc = "ready"
    /\ \E m \in NewMigrations(graph) : graph' = WithMigration(graph, m)
    /\ ret' = NoCall
    /\ UNCHANGED <<pc, setting, MigrationGraph_leaf_nodes, MigrationLoader_detect_conflicts,
                   init_original_leaf_nodes, apps_original_leaf_nodes, manifest>>

\* graph.leaf_nodes(app) on the host's MigrationGraph
LeafNodes ==
    /\ pc = "ready"
    /\ \E app \in AppLabels \cup {None} :
          ret' = Outcome("leaf_nodes", "", app,
                         CallLeafNodes(MigrationGraph_leaf_nodes, graph, app,
                                       init_original_leaf_nodes, apps_original_leaf_nodes))
    /\ UNCHANGED <<pc, setting, MigrationGraph_leaf_nodes, MigrationLoader_detect_conflicts,
                   init_original_leaf_nodes, apps_original_leaf_nodes, graph, manifest>>

\* what a call of detect_conflicts on the leaves leaf_nodes can end with
DetectOutcomes(op, leaf_nodes, py) ==
    LET found == DetectConflicts(leaf_nodes, graph, py)
    IN  IF found.error # "" THEN { Outcome(op, found.error, leaf_nodes, None) }
        ELSE { Outcome(op, "", leaf_nodes, d) : d \in found.value }

\* loader.detect_conflicts() on the host's MigrationLoader: the patched
\* function bound to it asks its module's get_strategy for the strategy and
\* hands it loader.graph
LoaderDetectConflicts ==
    /\ pc = "ready"
    /\ LET strategy == IF MigrationLoader_detect_conflicts = AppsPatchedDetectConflicts
                       THEN UtilsGetStrategy(setting) ELSE InitGetStrategy(setting)
           leaf_nodes == CallLeafNodes(MigrationGraph_leaf_nodes, graph, None,
                                       init_original_leaf_nodes, apps_original_leaf_nodes)
       IN  IF strategy.error # ""
           THEN ret' = Outcome("loader.detect_conflicts", strategy.error, None, None)
           ELSE \E py \in PythonMajor :
                    ret' \in DetectOutcomes("loader.detect_conflicts", leaf_nodes, py)
    /\ UNCHANGED <<pc, setting, MigrationGraph_leaf_nodes, MigrationLoader_detect_conflicts,
                   init_original_leaf_nodes, apps_original_leaf_nodes, graph, manifest>>

\* ModelDetectConflictStrategy(loader).detect_conflicts(graph), called with a
\* graph object of the caller's: its leaf_nodes is the function bound to
\* MigrationGraph.leaf_nodes, or the host's own (a graph class of its own)
StrategyDetectConflicts ==
    /\ pc = "ready"
    /\ \E fn \in {MigrationGraph_leaf_nodes, HostLeafNodes}, py \in PythonMajor :
          ret' \in DetectOutcomes("strategy.detect_conflicts",
                                  CallLeafNodes(fn, graph, None, init_original_leaf_nodes,
                                                apps_original_leaf_nodes),
                                  py)
    /\ UNCHANGED <<pc, setting, MigrationGraph_leaf_nodes, MigrationLoader_detect_conflicts,
                   init_original_leaf_nodes, apps_original_leaf_nodes, graph, manifest>>

\* the changes argument of write_manifest_file: the app labels with changes,
\* none (the default of utils.write_manifest) or all
Changes == { {}, AppLabels }

\* strategy.write_manifest_file(changes) as the last step of the call op, for
\* every list _get_sorted_nodes can return (one for each iteration order of
\* the nodes): the file is replaced if the strategy was found and nothing is
\* raised
WriteStep(op, strategy, g, changes) ==
    IF strategy.error # ""
    THEN /\ ret' = Outcome(op, strategy.error, None, None)
         /\ UNCHANGED manifest
    ELSE \E nodes \in { GetSortedNodes(nodes_order, app_configs) : nodes_order \in Orders(DOMAIN g) },
            py \in PythonMajor :
            LET written == ManifestOfSortedNodes(g, nodes, app_configs, changes, py)
            IN  IF written.error # ""
                THEN /\ ret' = Outcome(op, written.error, None, None)
                     /\ UNCHANGED manifest
                ELSE /\ ret' = Outcome(op, "", None, None)
                     /\ manifest' = written.value

\* the writemigrationmanifest command: utils.write_manifest(), changes ()
\* and strategy None, so that utils.get_strategy names the strategy
WriteManifest ==
    /\ pc = "ready"
    /\ WriteStep("write_manifest", UtilsGetStrategy(setting), graph, {})
    /\ UNCHANGED <<pc, setting, MigrationGraph_leaf_nodes, MigrationLoader_detect_conflicts,
                   init_original_leaf_nodes, apps_original_leaf_nodes, graph>>

\* getattr(strategies, name)
StrategiesAttribute(name) ==
    IF name \in StrategiesModule THEN Returned(name) ELSE Raised("AttributeError")

\* makemigrations' Command.write_migration_files(changes): the host command
\* writes the migration files, a new loader reads them, and the manifest is
\* written by strategies.SameModelDetectConflictStrategy
WriteMigrationFiles ==
    /\ pc = "ready"
    /\ \E m \in NewMigrations(graph) :
          /\ graph' = WithMigration(graph, m)
          /\ WriteStep("write_migration_files",
                       StrategiesAttribute("SameModelDetectConflictStrategy"),
                       WithMigration(graph, m), {m.key[1]})
    /\ UNCHANGED <<pc, setting, MigrationGraph_leaf_nodes, MigrationLoader_detect_conflicts,
                   init_original_leaf_nodes, apps_original_leaf_nodes>>

Next ==
    \/ ImportPackage
    \/ Ready
    \/ LoadMigration
    \/ WriteMigrationFiles
    \/ LeafNodes
    \/ LoaderDetectConflicts
    \/ StrategyDetectConflicts
    \/ WriteManifest

Spec == Init /\ [][Next]_vars

\* The calls read the graph, the setting and the bindings, and write only ret
\* and the manifest: each family of calls is checked with the start-up and
\* the arrival of migrations, without the other families' outcomes in ret.

\* start-up, migrations, graph.leaf_nodes
NextLeaf == ImportPackage \/ Ready \/ LoadMigration \/ LeafNodes
SpecLeaf == Init /\ [][NextLeaf]_vars

\* start-up, migrations, conflict detection
NextDetect ==
    ImportPackage \/ Ready \/ LoadMigration \/ LoaderDetectConflicts \/ StrategyDetectConflicts
SpecDetect == Init /\ [][NextDetect]_vars

\* start-up and the two commands that write the manifest, every migration
\* written by makemigrations
NextManifest == ImportPackage \/ Ready \/ WriteMigrationFiles \/ WriteManifest
SpecManifest == Init /\ [][NextManifest]_vars

--------------------------------------------------------------------------
(* What the claims speak of *)

\* migration k of g changes the model: one of its operations is a model
\* operation on it or a field operation on one of its fields
Touches(g, k, model) ==
    \E i \in DOMAIN g[k].operations :
        LET operation == g[k].operations[i]
        IN  \/ operation.class \in ModelOperationClasses /\ operation.name_lower = model
            \/ operation.class \in FieldOperationClasses /\ operation.model_name_lower = model

\* the nodes k depends on, directly or transitively
RECURSIVE Ancestors(_, _, _)
Ancestors(g, k, n) ==
    IF n = 0 THEN {}
    ELSE g[k].dependencies \cup UNION { Ancestors(g, d, n - 1) : d \in g[k].dependencies }
DependsOn(g, k, d) == d \in Ancestors(g, k, Cardinality(DOMAIN g))

\* s is a sub-list of t: the elements of s, in order, among those of t
IsSubList(s, t) ==
    \E f \in [DOMAIN s -> DOMAIN t] :
        /\ \A i \in DOMAIN s : t[f[i]] = s[i]
        /\ \A i, j \in DOMAIN s : i < j => f[i] < f[j]

\* the host's leaves: what the unpatched MigrationGraph.leaf_nodes() reports
HostLeaves == Range(OriginalLeafNodes(graph, None))

--------------------------------------------------------------------------
(* C1 *)

\* the app labels with two distinct host leaves that both change one model
AppsWithSameModelLeaves ==
    { app \in AppLabels :
        \E k1, k2 \in HostLeaves : \E model \in ModelNames :
            /\ k1 # k2 /\ k1[1] = app /\ k2[1] = app
            /\ Touches(graph, k1, model) /\ Touches(graph, k2, model) }

\* C1: with the patches installed and ModelDetectConflictStrategy the
\* strategy, whenever two distinct leaf migrations of one app change the same
\* model, what MigrationLoader.detect_conflicts returns contains that app.
C1_SameModelLeavesConflict ==
    (/\ ret.op = "loader.detect_conflicts"
     /\ ret.error = ""
     /\ MigrationGraph_leaf_nodes # HostLeafNodes
     /\ MigrationLoader_detect_conflicts # HostDetectConflicts)
    => \A app \in AppsWithSameModelLeaves : app \in DOMAIN ret.value

--------------------------------------------------------------------------
(* C2 *)

\* the app labels of which some model is changed in two distinct migrations
\* of the list leaf_nodes
AppsChangedTwice(leaf_nodes) ==
    { app \in AppLabels :
        \E i, j \in DOMAIN leaf_nodes : \E model \in ModelNames :
            /\ i # j /\ leaf_nodes[i][1] = app /\ leaf_nodes[j][1] = app
            /\ Touches(graph, leaf_nodes[i], model) /\ Touches(graph, leaf_nodes[j], model) }

C2_WitnessSelf ==
    /\ ret.op = "strategy.detect_conflicts"
    /\ ret.error = ""
    /\ \E i \in DOMAIN ret.arg : \E model \in ModelNames :
          /\ Len(graph[ret.arg[i]].operations) = 2
          /\ \A n \in 1..2 :
                LET operation == graph[ret.arg[i]].operations[n]
                IN  operation.class = "CreateModel" /\ operation.name_lower = model
    /\ DOMAIN ret.value = {}

--------------------------------------------------------------------------
(* C3 *)

\* the positions of the manifest's entries with this key
EntriesOf(key) == { i \in DOMAIN manifest : manifest[i][1] = key }

\* the migrations of the app that change the model
Touching(app, model) == { k \in DOMAIN graph : k[1] = app /\ Touches(graph, k, model) }

\* C3: after write_manifest_file, a model changed by some migration has
\* exactly one entry "app_label.model", whose value names a migration that
\* changes the model and on which no other migration changing the model
\* depends; a model changed by none has no entry.
C3_ManifestNamesLatestMigration ==
    (ret.op = "write_manifest" /\ ret.error = "")
    => \A app \in AppLabels, model \in ModelNames :
          IF Touching(app, model) = {}
          THEN EntriesOf(ModelKey(app, model)) = {}
          ELSE /\ Cardinality(EntriesOf(ModelKey(app, model))) = 1
               /\ \A i \in EntriesOf(ModelKey(app, model)) :
                     \E k \in Touching(app, model) :
                         /\ manifest[i][2] = k[2]
                         /\ \A other \in Touching(app, model) \ {k} : ~DependsOn(graph, other, k)

--------------------------------------------------------------------------
(* C4 *)

\* the entries after the header
ModelEntries == SubSeq(manifest, Len(ManifestHeader) + 1, Len(manifest))

\* the entry is that of model_name of app_label
IsEntryOf(entry, app_label, model_name) == entry[1] = app_label \o << 46 >> \o model_name

\* the model entry e1 comes before e2 by (position of the app in the
\* installed apps, model name)
EntryBefore(e1, e2) ==
    \E a1, a2 \in AppLabels, m1, m2 \in ModelNames :
        /\ IsEntryOf(e1, a1, m1) /\ IsEntryOf(e2, a2, m2)
        /\ \E p1, p2 \in DOMAIN app_configs :
              /\ app_configs[p1] = a1 /\ app_configs[p2] = a2
              /\ (p1 < p2 \/ (p1 = p2 /\ StrLess(m1, m2)))

\* C4: the manifest written is the same for every iteration order of the
\* graph's nodes and every changes argument; it opens with the twelve header
\* entries _H00 .. _H11 in order, and the model entries follow, ordered by
\* the app's position in the installed apps and then by model name.
C4_ManifestDeterministic ==
    (ret.op = "write_manifest" /\ ret.error = "")
    => /\ \A nodes_order \in Orders(DOMAIN graph), changes \in Changes, py \in PythonMajor :
             LET again == WriteManifestFile(graph, nodes_order, changes, py)
             IN  again.error = "" => again.value = manifest
       /\ Len(manifest) >= 12
       /\ \A i \in 1..12 :
             /\ manifest[i][1] = << 95, 72, 48 + ((i - 1) \div 10), 48 + ((i - 1) % 10) >>
             /\ manifest[i][2] = ManifestHeader[i]
       /\ \A i, j \in DOMAIN ModelEntries : i < j => EntryBefore(ModelEntries[i], ModelEntries[j])

\* a manifest was written from two migrations of one app that change the
\* same model, and from models of both apps
C4_Witness ==
    /\ ret.op = "write_manifest"
    /\ ret.error = ""
    /\ \E k1, k2 \in DOMAIN graph : \E model \in ModelNames :
          /\ k1 # k2 /\ k1[1] = k2[1]
          /\ Touches(graph, k1, model) /\ Touches(graph, k2, model)
    /\ Len(ModelEntries) = 1

\* a manifest was written with two model entries
C4_WitnessOrder ==
    /\ ret.op = "write_manifest"
    /\ ret.error = ""
    /\ Len(ModelEntries) = 2
    /\ ModelEntries[1][1][1] = 98

--------------------------------------------------------------------------
(* C5 *)

\* C5: every call of Command.write_migration_files ends without an error,
\* the manifest file written from the graph of a fresh loader.
C5_MakemigrationsWritesManifest ==
    ret.op = "write_migration_files"
    => /\ ret.error = ""
       /\ \E nodes_order \in Orders(DOMAIN graph), py \in PythonMajor :
             LET written == WriteManifestFile(graph, nodes_order, {}, py)
             IN  written.error = "" /\ written.value = manifest

--------------------------------------------------------------------------
(* C6 *)

\* C6: once the package is imported and ready() has run, the host's two
\* entry points are the patched functions if the setting is defined and the
\* host's own functions if it is unset or empty.
C6_PatchedOnlyWithStrategy ==
    pc = "ready"
    => IF setting \in {Unset, ""}
       THEN /\ MigrationGraph_leaf_nodes = HostLeafNodes
            /\ MigrationLoader_detect_conflicts = HostDetectConflicts
       ELSE /\ MigrationGraph_leaf_nodes \in {InitPatchedLeafNodes, AppsPatchedLeafNodes}
            /\ MigrationLoader_detect_conflicts
                   \in {InitPatchedDetectConflicts, AppsPatchedDetectConflicts}

--------------------------------------------------------------------------
(* C7 *)

\* C7: the patched leaf_nodes returns a sub-list of what the host's
\* leaf_nodes returns for the same app argument, with exactly one node for
\* each app label that has a leaf there: the leaf of the greatest name.
C7_LastLeafOfEachApp ==
    (ret.op = "leaf_nodes" /\ MigrationGraph_leaf_nodes # HostLeafNodes)
    => LET original == OriginalLeafNodes(graph, ret.arg)
           patched == ret.value
       IN  /\ IsSubList(patched, original)
           /\ \A n \in DOMAIN original :
                 \E i \in DOMAIN patched :
                     /\ patched[i][1] = original[n][1]
                     /\ ~StrLess(patched[i][2], original[n][2])
                     /\ \A j \in DOMAIN patched : patched[j][1] = original[n][1] => j = i

\* the patched leaf_nodes dropped a leaf of an app with two leaves and kept
\* the leaf of another app
C7_Witness ==
    /\ ret.op = "leaf_nodes"
    /\ MigrationGraph_leaf_nodes # HostLeafNodes
    /\ Len(OriginalLeafNodes(graph, ret.arg)) = 3
    /\ Len(ret.value) = 2

====
